---- MODULE Spec2Model ----
(***************************************************************************)
(* A model of the cellular-automaton core of src/life.py: the World (a     *)
(* toroidal grid of Cells), the per-cell neighbour caches, the static      *)
(* flag, the rule functions and their ordered tables, and the operations   *)
(* World.initialize, World.change_cell_identity, World.__str__ and         *)
(* World.tick.                                                             *)
(***************************************************************************)
EXTENDS Integers, Sequences, FiniteSets, TLC

VARIABLES rows, cols, cells, ticks, pc, op, pre, arg, out, err, invoked, paints

vars ==
    <<rows, cols, cells, ticks, pc, op, pre, arg, out, err, invoked, paints>>

(***************************************************************************)
(* Bounds of the model.                                                    *)
(***************************************************************************)
\* worlds have 1 .. MaxRows rows and 1 .. MaxCols columns
MaxRows == 3
MaxCols == 4
\* worlds of at most MaxCells cells are loaded with every matrix of codes
MaxCells == 6
\* larger worlds, of at most MaxBigCells cells, are loaded with the matrices
\* that have at most MaxActive entries other than 0, all of them among the
\* first MaxCells entries in row-major order
MaxBigCells == 9
MaxActive == 3
\* tick() is called at most MaxTicks times, change_cell_identity at most
\* MaxPaints times
MaxTicks == 2
MaxPaints == 1
\* a running world of at most MaxReloadCells cells may be loaded again
MaxReloadCells == 1

(***************************************************************************)
(* CELLS & RULES tables (life.py, bottom of the file).                     *)
(***************************************************************************)
CELLS == (0 :> "inactive") @@ (1 :> "live") @@ (2 :> "fire") @@ (3 :> "water")

\* a variant with the codes of fire and water exchanged
CELLS_INDEX_swapped ==
    ("inactive" :> 0) @@ ("live" :> 1) @@ ("fire" :> 3) @@ ("water" :> 2)

CELLS_INDEX ==
    ("inactive" :> 0) @@ ("live" :> 1) @@ ("fire" :> 2) @@ ("water" :> 3)

\* a variant with the two rules in the other order
INACTIVE_RULES_reversed == <<"spreading_fire", "reproduction">>

INACTIVE_RULES == <<"reproduction", "spreading_fire">>

LIVE_RULES == <<"solitude", "overpopulation", "scorch", "drowning">>

\* a variant with Firefighter placed before Burnout
FIRE_RULES_firefighter_first == <<"firefighter", "burnout", "extinguish">>

FIRE_RULES == <<"burnout", "firefighter", "extinguish">>

WATER_RULES == <<"evaporation">>

\* a variant that gives Water cells the rule list of Fire cells
RULES_water_as_fire ==
    ("inactive" :> INACTIVE_RULES) @@ ("live" :> LIVE_RULES) @@
    ("fire" :> FIRE_RULES) @@ ("water" :> FIRE_RULES)

RULES ==
    ("inactive" :> INACTIVE_RULES) @@ ("live" :> LIVE_RULES) @@
    ("fire" :> FIRE_RULES) @@ ("water" :> WATER_RULES)

Identities == {"inactive", "live", "fire", "water"}

(***************************************************************************)
(* Python dictionaries of identity frequencies: a function whose domain is *)
(* the set of keys present.                                                *)
(***************************************************************************)
EmptyDict == [x \in {} |-> 0]

\* for identity in list: if identity in d: d[identity] += 1 else d.update({identity: 1})
RECURSIVE CountInto(_, _, _)
CountInto(d, list, k) ==
    IF k > Len(list) THEN d
    ELSE LET identity == list[k]
             d2 == IF identity \in DOMAIN d
                   THEN [d EXCEPT ![identity] = @ + 1]
                   ELSE d @@ (identity :> 1)
         IN  CountInto(d2, list, k + 1)

\* for identity in more: if identity in neighbors: neighbors[identity] += more[identity]
\*                       else neighbors.update({identity: more[identity]})
MergeInto(neighbors, more) ==
    [identity \in (DOMAIN neighbors) \cup (DOMAIN more) |->
        IF identity \in DOMAIN neighbors
        THEN IF identity \in DOMAIN more
             THEN neighbors[identity] + more[identity]
             ELSE neighbors[identity]
        ELSE more[identity]]

(***************************************************************************)
(* The world as a value: [rows, cols, cells, ticks]; cells maps a position *)
(* <<row, col>> to the Cell object stored at self.cells[row][col].         *)
(***************************************************************************)
Positions(r, c) == (0 .. r - 1) \X (0 .. c - 1)

\* the k-th cell of "for i in range(rows): for j in range(cols)"
PosAt(w, k) == <<k \div w.cols, k % w.cols>>

NumCells(w) == w.rows * w.cols

\* Cell.__init__ (static is None, which Python treats as false; it is written
\* FALSE here)
NewCell(row, col) ==
    [row |-> row, col |-> col, identity |-> "inactive", ticks |-> 0,
     static |-> FALSE, neighbors |-> EmptyDict,
     adjacent |-> EmptyDict, diagonals |-> EmptyDict]

\* Python list indexing seq[i] on a list of length n: indices -n .. n-1 are
\* valid (negative ones count from the end), anything else raises IndexError.
InRange(n, i) == -n <= i /\ i < n

PyIndex(n, i) == IF i >= 0 THEN i ELSE i + n

\* World.get_cell: self.cells[row][col]
get_cell(w, row, col) ==
    IF InRange(w.rows, row) /\ InRange(w.cols, col)
    THEN w.cells[<<PyIndex(w.rows, row), PyIndex(w.cols, col)>>]
    ELSE "IndexError"

\* Cell.get_adjacent
get_adjacent(w, self) ==
    LET list_adjacent ==
          << get_cell(w, (self.row - 1) % w.rows, self.col).identity,
             get_cell(w, (self.row + 1) % w.rows, self.col).identity,
             get_cell(w, self.row, (self.col - 1) % w.cols).identity,
             get_cell(w, self.row, (self.col + 1) % w.cols).identity >>
    IN  CountInto(EmptyDict, list_adjacent, 1)

\* Cell.get_diagonals
get_diagonals(w, self) ==
    LET at(x, y) == get_cell(w, (self.row + x) % w.rows,
                                (self.col + y) % w.cols).identity
        list_diagonals == << at(-1, -1), at(-1, 1), at(1, -1), at(1, 1) >>
    IN  CountInto(EmptyDict, list_diagonals, 1)

\* a variant that adds the counts to the table the cell already has
set_neighbors_accumulating(w, self) ==
    LET neighbors == MergeInto(self.neighbors, get_adjacent(w, self))
        more == get_diagonals(w, self)
        merged == MergeInto(neighbors, more)
    IN  [self EXCEPT !.adjacent = merged, !.diagonals = more,
                     !.neighbors = merged]

\* Cell.set_neighbors: self.adjacent and self.neighbors are bound to the SAME
\* dictionary object, which the loop then updates in place with the diagonal
\* counts; self.diagonals is a separate dictionary.
set_neighbors(w, self) ==
    LET neighbors == get_adjacent(w, self)
        more == get_diagonals(w, self)
        merged == MergeInto(neighbors, more)
    IN  [self EXCEPT !.adjacent = merged, !.diagonals = more,
                     !.neighbors = merged]

\* a variant that forgets the cell's own identity
is_static_any_identity(self) ==
    /\ "inactive" \in DOMAIN self.neighbors
    /\ Cardinality(DOMAIN self.neighbors) = 1

\* a variant that tests the count of inactive neighbours, not the number of keys
is_static_count(self) ==
    /\ self.identity = "inactive"
    /\ "inactive" \in DOMAIN self.neighbors
    /\ self.neighbors["inactive"] = 1

\* Cell.is_static
is_static(self) ==
    /\ self.identity = "inactive"
    /\ "inactive" \in DOMAIN self.neighbors
    /\ Cardinality(DOMAIN self.neighbors) = 1

\* World.cache_neighbors: for row in self.cells: for cell in row: cell.set_neighbors()
RECURSIVE cache_neighbors_from(_, _)
cache_neighbors_from(w, k) ==
    IF k >= NumCells(w) THEN w
    ELSE LET p == PosAt(w, k)
         IN  cache_neighbors_from(
                 [w EXCEPT !.cells[p] = set_neighbors(w, w.cells[p])], k + 1)

cache_neighbors(w) == cache_neighbors_from(w, 0)

\* World.cache_static
RECURSIVE cache_static_from(_, _)
cache_static_from(w, k) ==
    IF k >= NumCells(w) THEN w
    ELSE LET p == PosAt(w, k)
         IN  cache_static_from(
                 [w EXCEPT !.cells[p].static = is_static(w.cells[p])], k + 1)

cache_static(w) == cache_static_from(w, 0)

\* a variant that classifies before it refreshes the neighbour tables
setup_cells_static_first(w) == cache_neighbors(cache_static(w))

\* World.setup_cells
setup_cells(w) == cache_static(cache_neighbors(w))

(***************************************************************************)
(* RULE IMPLEMENTATIONS (methods of Cell).  Each returns the identity of   *)
(* the resulting cell, or "AssertionError" when its assert fails.          *)
(***************************************************************************)
\* a variant with the threshold one lower
apply_solitude_below_one(self) ==
    IF self.identity # "live" THEN "AssertionError"
    ELSE IF "live" \notin DOMAIN self.neighbors THEN "inactive"
    ELSE IF self.neighbors["live"] < 1 THEN "inactive"
    ELSE "live"

apply_solitude(self) ==
    IF self.identity # "live" THEN "AssertionError"
    ELSE IF "live" \notin DOMAIN self.neighbors THEN "inactive"
    ELSE IF self.neighbors["live"] < 2 THEN "inactive"
    ELSE "live"

apply_overpopulation(self) ==
    IF self.identity # "live" THEN "AssertionError"
    ELSE IF "live" \in DOMAIN self.neighbors /\ self.neighbors["live"] > 3
         THEN "inactive"
    ELSE "live"

apply_reproduction(self) ==
    IF self.identity # "inactive" THEN "AssertionError"
    ELSE IF "live" \in DOMAIN self.neighbors /\ self.neighbors["live"] = 3
         THEN "live"
    ELSE "inactive"

apply_burnout(self) ==
    IF self.identity # "fire" THEN "AssertionError"
    ELSE IF "fire" \notin DOMAIN self.adjacent THEN "inactive"
    ELSE "fire"

apply_spreading_fire(self) ==
    IF self.identity # "inactive" THEN "AssertionError"
    ELSE IF "fire" \in DOMAIN self.neighbors /\ self.neighbors["fire"] >= 4
         THEN "fire"
    ELSE "inactive"

\* a variant in which the scorched cell catches fire
apply_scorch_to_fire(self) ==
    IF self.identity # "live" THEN "AssertionError"
    ELSE IF "fire" \in DOMAIN self.adjacent THEN "fire"
    ELSE "live"

apply_scorch(self) ==
    IF self.identity # "live" THEN "AssertionError"
    ELSE IF "fire" \in DOMAIN self.adjacent THEN "inactive"
    ELSE "live"

apply_firefighter(self) ==
    IF self.identity # "fire" THEN "AssertionError"
    ELSE IF "live" \in DOMAIN self.diagonals /\ self.diagonals["live"] >= 2
         THEN "water"
    ELSE "fire"

\* a variant in which the extinguished cell becomes Water
apply_extinguish_to_water(self) ==
    IF self.identity # "fire" THEN "AssertionError"
    ELSE IF "water" \in DOMAIN self.neighbors THEN "water"
    ELSE "fire"

apply_extinguish(self) ==
    IF self.identity # "fire" THEN "AssertionError"
    ELSE IF "water" \in DOMAIN self.neighbors THEN "inactive"
    ELSE "fire"

apply_drowning(self) ==
    IF self.identity # "live" THEN "AssertionError"
    ELSE IF "water" \in DOMAIN self.neighbors /\ self.neighbors["water"] >= 6
         THEN "inactive"
    ELSE "live"

apply_evaporation(self) ==
    IF self.identity # "water" THEN "AssertionError"
    ELSE IF "water" \notin DOMAIN self.adjacent THEN "inactive"
    ELSE "water"

\* rule(this_cell) for an entry of a rule list
ApplyRule(rule, self) ==
    CASE rule = "solitude"       -> apply_solitude(self)
      [] rule = "overpopulation" -> apply_overpopulation(self)
      [] rule = "reproduction"   -> apply_reproduction(self)
      [] rule = "burnout"        -> apply_burnout(self)
      [] rule = "spreading_fire" -> apply_spreading_fire(self)
      [] rule = "scorch"         -> apply_scorch(self)
      [] rule = "firefighter"    -> apply_firefighter(self)
      [] rule = "extinguish"     -> apply_extinguish(self)
      [] rule = "drowning"       -> apply_drowning(self)
      [] rule = "evaporation"    -> apply_evaporation(self)

(***************************************************************************)
(* World.tick, inner loop:                                                 *)
(*     for rule in RULES[this_cell.identity]:                              *)
(*         result_identity = rule(this_cell)                               *)
(*         if result_identity != this_cell.identity: break                 *)
(* The value is the final result_identity and the rules that were called.  *)
(***************************************************************************)
\* a variant without the break: every rule of the list is called
RECURSIVE rule_loop_no_break(_, _, _, _, _)
rule_loop_no_break(this_cell, rule_list, k, result_identity, called) ==
    IF k > Len(rule_list)
    THEN [result |-> result_identity, called |-> called]
    ELSE rule_loop_no_break(this_cell, rule_list, k + 1,
                            ApplyRule(rule_list[k], this_cell),
                            Append(called, rule_list[k]))

RECURSIVE rule_loop(_, _, _, _, _)
rule_loop(this_cell, rule_list, k, result_identity, called) ==
    IF k > Len(rule_list)
    THEN [result |-> result_identity, called |-> called]
    ELSE LET r == ApplyRule(rule_list[k], this_cell)
         IN  IF r # this_cell.identity
             THEN [result |-> r, called |-> Append(called, rule_list[k])]
             ELSE rule_loop(this_cell, rule_list, k + 1, r,
                            Append(called, rule_list[k]))

\* World.tick, body of the loop over j for one cell
\* (RULES[this_cell.identity] raises KeyError for an identity without a list)
eval_cell(this_cell) ==
    IF ~this_cell.static
    THEN IF this_cell.identity \notin DOMAIN RULES
         THEN [result |-> "KeyError", called |-> <<>>]
         ELSE rule_loop(this_cell, RULES[this_cell.identity], 1,
                        this_cell.identity, <<>>)
    ELSE [result |-> this_cell.identity, called |-> <<>>]

(***************************************************************************)
(* World.change_cell_identity and World.initialize.  Both return the world *)
(* as the call leaves it and the exception raised ("ok" when none).        *)
(***************************************************************************)
change_cell_identity(w, new, row, col) ==
    IF InRange(w.rows, row) /\ InRange(w.cols, col)
    THEN [w |-> [w EXCEPT !.cells[<<PyIndex(w.rows, row),
                                    PyIndex(w.cols, col)>>].identity = new],
          err |-> "ok"]
    ELSE [w |-> w, err |-> "IndexError"]

\* the two nested loops of World.initialize, from the k-th cell on
RECURSIVE initialize_from(_, _, _)
initialize_from(w, initial, k) ==
    IF k >= NumCells(w) THEN [w |-> w, err |-> "ok"]
    ELSE LET i == PosAt(w, k)[1]
             j == PosAt(w, k)[2]
         IN  IF j + 1 > Len(initial[i + 1])
             THEN [w |-> w, err |-> "IndexError"]
             ELSE IF initial[i + 1][j + 1] \notin DOMAIN CELLS
             THEN [w |-> w, err |-> "KeyError"]
             ELSE initialize_from(
                      change_cell_identity(
                          w, CELLS[initial[i + 1][j + 1]], i, j).w,
                      initial, k + 1)

\* World.initialize
initialize(w, initial) ==
    IF ~(Len(initial) = w.rows /\ Len(initial[1]) = w.cols)
    THEN [w |-> w, err |-> "AssertionError"]
    ELSE initialize_from(w, initial, 0)

\* World.__str__: the matrix of CELLS_INDEX codes (CELLS_INDEX[cell.identity]
\* raises KeyError for an identity that has no code)
WorldStr(w) ==
    IF \E p \in DOMAIN w.cells : w.cells[p].identity \notin DOMAIN CELLS_INDEX
    THEN [str |-> <<>>, err |-> "KeyError"]
    ELSE [str |-> [i \in 1 .. w.rows |->
                     [j \in 1 .. w.cols |->
                        CELLS_INDEX[w.cells[<<i - 1, j - 1>>].identity]]],
          err |-> "ok"]

(***************************************************************************)
(* World.tick.  The outer loops visit the cells in row-major order; each   *)
(* visit evaluates the rules, increments the cell's tick count and appends *)
(* the code of the result to this_row, which is appended to updated at the *)
(* end of its row.                                                         *)
(***************************************************************************)
RECURSIVE tick_loop(_, _, _, _, _)
tick_loop(w, k, updated, this_row, called) ==
    IF k >= NumCells(w)
    THEN [w |-> w, updated |-> updated, called |-> called, err |-> "ok"]
    ELSE LET p == PosAt(w, k)
             this_cell == get_cell(w, p[1], p[2])
             ev == eval_cell(this_cell)
             row0 == IF p[2] = 0 THEN <<>> ELSE this_row
         IN  IF ev.result \in {"AssertionError", "KeyError"}
             THEN [w |-> w, updated |-> updated,
                   called |-> (p :> ev.called) @@ called,
                   err |-> ev.result]
             ELSE LET w2 == [w EXCEPT !.cells[p].ticks = @ + 1]
                      row1 == Append(row0, CELLS_INDEX[ev.result])
                      upd1 == IF p[2] = w.cols - 1
                              THEN Append(updated, row1) ELSE updated
                  IN  tick_loop(w2, k + 1, upd1, row1,
                                (p :> ev.called) @@ called)

\* a variant that updates the grid in place: each cell is cached, classified,
\* evaluated and overwritten before the next cell is visited
RECURSIVE tick_in_place_from(_, _, _)
tick_in_place_from(w, k, called) ==
    IF k >= NumCells(w) THEN [w |-> w, called |-> called]
    ELSE LET p == PosAt(w, k)
             c1 == set_neighbors(w, w.cells[p])
             c2 == [c1 EXCEPT !.static = is_static(c1)]
             ev == eval_cell(c2)
             c3 == [c2 EXCEPT !.identity = ev.result, !.ticks = @ + 1]
         IN  tick_in_place_from([w EXCEPT !.cells[p] = c3], k + 1,
                                (p :> ev.called) @@ called)

tick_in_place(w) ==
    LET r == tick_in_place_from(w, 0, <<>>)
    IN  [w |-> [r.w EXCEPT !.ticks = @ + 1], called |-> r.called,
         err |-> "ok"]

\* a variant that classifies the cells once more after the commit
tick_reclassifying(w) ==
    LET w1 == setup_cells(w)
        ev == tick_loop(w1, 0, <<>>, <<>>, <<>>)
    IN  IF ev.err # "ok"
        THEN [w |-> ev.w, called |-> ev.called, err |-> ev.err]
        ELSE LET ini == initialize(ev.w, ev.updated)
             IN  IF ini.err # "ok"
                 THEN [w |-> ini.w, called |-> ev.called, err |-> ini.err]
                 ELSE [w |-> setup_cells([ini.w EXCEPT !.ticks = @ + 1]),
                       called |-> ev.called, err |-> "ok"]

tick(w) ==
    LET w1 == setup_cells(w)
        ev == tick_loop(w1, 0, <<>>, <<>>, <<>>)
    IN  IF ev.err # "ok"
        THEN [w |-> ev.w, called |-> ev.called, err |-> ev.err]
        ELSE LET ini == initialize(ev.w, ev.updated)
             IN  IF ini.err # "ok"
                 THEN [w |-> ini.w, called |-> ev.called, err |-> ini.err]
                 ELSE [w |-> [ini.w EXCEPT !.ticks = @ + 1],
                       called |-> ev.called, err |-> "ok"]

(***************************************************************************)
(* Display.  The screen is modelled as the colour shown at each position.  *)
(***************************************************************************)
COLORS ==
    ("inactive" :> "WHITE") @@ ("live" :> "BLACK") @@ ("fire" :> "RED") @@
    ("water" :> "BLUE")

\* Display.draw_initial: draw_cell for every cell
draw_initial(w) == [p \in DOMAIN w.cells |-> COLORS[w.cells[p].identity]]

\* Display.draw_world: draw_cell for the cells that are not static; the other
\* positions keep what the screen shows
draw_world(screen, w) ==
    [p \in DOMAIN w.cells |->
        IF ~w.cells[p].static THEN COLORS[w.cells[p].identity] ELSE screen[p]]

\* World.__init__
NewWorld(r, c) ==
    setup_cells([rows |-> r, cols |-> c,
                 cells |-> [p \in Positions(r, c) |-> NewCell(p[1], p[2])],
                 ticks |-> 0])

(***************************************************************************)
(* The program as a state machine.  rows, cols, cells and ticks are the    *)
(* fields of the World.  The other variables record the calls: op the name *)
(* of the last call, arg the matrix given to initialize, pre the           *)
(* identities when the last initialize, change_cell_identity or tick       *)
(* started, out the value of the last __str__, err the exception the last  *)
(* call raised, invoked the rules the last tick called for each cell,      *)
(* paints the number of change_cell_identity calls.  pc is the stage of    *)
(* the run: a new world, a board being drawn, a loaded board, the game     *)
(* loop, or stopped by an exception.                                       *)
(***************************************************************************)
W == [rows |-> rows, cols |-> cols, cells |-> cells, ticks |-> ticks]

IdGrid(cs) == [p \in DOMAIN cs |-> cs[p].identity]

NoCalls == [p \in DOMAIN cells |-> <<>>]

Dims == {d \in (1 .. MaxRows) \X (1 .. MaxCols) : d[1] * d[2] <= MaxBigCells}

\* matrices as Python lists of lists: sequences of rows
Matrix(r, c, codes) == [1 .. r -> [1 .. c -> codes]]

\* the matrices over the codebook with at most n entries other than 0, all
\* among the first MaxCells entries
SparseMatrix(r, c, n) ==
    LET first == {q \in (1 .. r) \X (1 .. c) :
                     (q[1] - 1) * c + (q[2] - 1) < MaxCells}
        places == {S \in SUBSET first : Cardinality(S) <= n}
        fills == UNION {[S -> (DOMAIN CELLS) \ {0}] : S \in places}
    IN  {[i \in 1 .. r |->
            [j \in 1 .. c |-> IF <<i, j>> \in DOMAIN f THEN f[<<i, j>>] ELSE 0]]
         : f \in fills}

ValidInputs(r, c) ==
    IF r * c <= MaxCells THEN Matrix(r, c, DOMAIN CELLS)
    ELSE SparseMatrix(r, c, MaxActive)

Uniform(r, c, code) == [i \in 1 .. r |-> [j \in 1 .. c |-> code]]

\* a matrix of the right dimensions with one entry that is no code
BadCodeInputs(r, c) ==
    {[Uniform(r, c, 1) EXCEPT ![i][j] = bad] :
        i \in 1 .. r, j \in 1 .. c, bad \in {-1, 4}}

\* matrices of other dimensions: a row too many or too few, or one row (the
\* first or a later one) longer or shorter than cols
BadDimInputs(r, c) ==
    {Uniform(r + 1, c, 2), Uniform(r - 1, c, 2)} \cup
    {[Uniform(r, c, 2) EXCEPT ![i] = [j \in 1 .. n |-> 1]] :
        i \in 1 .. r, n \in {c - 1, c + 1}}

Init ==
    /\ \E d \in Dims :
          /\ rows = d[1]
          /\ cols = d[2]
          /\ cells = NewWorld(d[1], d[2]).cells
    /\ ticks = 0
    /\ pc = "new"
    /\ op = "init"
    /\ pre = IdGrid(cells)
    /\ arg = <<>>
    /\ out = <<>>
    /\ err = "ok"
    /\ invoked = NoCalls
    /\ paints = 0

\* world.initialize(initial)
Initialize(initial) ==
    /\ \E r \in {initialize(W, initial)} :
           /\ cells' = r.w.cells
           /\ err' = r.err
           /\ pc' = IF r.err = "ok" THEN "loaded" ELSE "failed"
    /\ op' = "initialize"
    /\ pre' = IdGrid(cells)
    /\ arg' = initial
    /\ out' = <<>>
    /\ invoked' = NoCalls
    /\ UNCHANGED <<rows, cols, ticks, paints>>

\* play(): world = World("Life", rows, cols); world.initialize(initial)
InitializeValid ==
    /\ pc = "new"
    /\ \E initial \in ValidInputs(rows, cols) : Initialize(initial)

InitializeBadCode ==
    /\ pc = "new"
    /\ \E initial \in BadCodeInputs(rows, cols) : Initialize(initial)

InitializeBadDim ==
    /\ pc = "new"
    /\ \E initial \in BadDimInputs(rows, cols) : Initialize(initial)

\* world.initialize(initial) called again, on a world that has ticked
Reinitialize ==
    /\ pc = "running"
    /\ rows * cols <= MaxReloadCells
    /\ \E initial \in ValidInputs(rows, cols) : Initialize(initial)

\* Drawing.paint_cell: world.change_this_cell_identity(current, cell), which
\* is world.change_cell_identity(current, cell.row, cell.col)
Paint ==
    /\ pc \in {"new", "drawing"}
    /\ paints < MaxPaints
    /\ \E new \in Identities \cup {"virus"}, row \in -(rows + 1) .. rows,
          col \in -(cols + 1) .. cols :
          \E r \in {change_cell_identity(W, new, row, col)} :
              /\ cells' = r.w.cells
              /\ err' = r.err
    /\ pc' = "drawing"
    /\ paints' = paints + 1
    /\ op' = "paint"
    /\ pre' = IdGrid(cells)
    /\ arg' = <<>>
    /\ out' = <<>>
    /\ invoked' = NoCalls
    /\ UNCHANGED <<rows, cols, ticks>>

\* Drawing.paint_cell: print(self.display.world), i.e. World.__str__; the
\* game loop does not print the world (the call in Display.update is
\* commented out)
Snapshot ==
    /\ pc # "running"
    /\ \E r \in {WorldStr(W)} :
           /\ out' = r.str
           /\ err' = r.err
    /\ op' = "snapshot"
    /\ UNCHANGED <<rows, cols, cells, ticks, pc, pre, arg, invoked, paints>>

\* Display.update: world.tick()
Tick ==
    /\ pc # "failed"
    /\ ticks < MaxTicks
    /\ \E r \in {tick(W)} :
           /\ cells' = r.w.cells
           /\ ticks' = r.w.ticks
           /\ err' = r.err
           /\ invoked' = r.called
           /\ pc' = IF r.err = "ok" THEN "running" ELSE "failed"
    /\ op' = "tick"
    /\ pre' = IdGrid(cells)
    /\ arg' = <<>>
    /\ out' = <<>>
    /\ UNCHANGED <<rows, cols, paints>>

\* The runs of the model: a new world is loaded by one initialize() or drawn
\* by change_cell_identity calls, printed, and then ticked; a small world may
\* be loaded again between ticks; a call that raises in initialize() or
\* tick() ends the run.
Next ==
    \/ InitializeValid
    \/ InitializeBadCode
    \/ InitializeBadDim
    \/ Reinitialize
    \/ Paint
    \/ Snapshot
    \/ Tick

Spec == Init /\ [][Next]_vars

(***************************************************************************)
(* A second specification, of square worlds: the board is loaded with a    *)
(* full neighbourhood, a cell with all eight neighbours set, and ticked.   *)
(***************************************************************************)
\* the sequences of four codes in non-decreasing order: the rules see the
\* number of neighbours of each identity on the four orthogonal and on the
\* four diagonal places, not their order
NonDecreasing ==
    {s \in [1 .. 4 -> DOMAIN CELLS] :
        s[1] <= s[2] /\ s[2] <= s[3] /\ s[3] <= s[4]}

\* the matrices, for a world of at least 3 x 3 cells, that give any code to
\* the cell (1, 1), codes o to the cells above, below, left and right of it,
\* codes d to its four corners, and 0 to every other cell
NeighbourhoodInputs(r, c) ==
    {[i \in 1 .. r |-> [j \in 1 .. c |->
         CASE <<i, j>> = <<2, 2>> -> mid
           [] <<i, j>> = <<1, 2>> -> o[1]
           [] <<i, j>> = <<3, 2>> -> o[2]
           [] <<i, j>> = <<2, 1>> -> o[3]
           [] <<i, j>> = <<2, 3>> -> o[4]
           [] <<i, j>> = <<1, 1>> -> d[1]
           [] <<i, j>> = <<1, 3>> -> d[2]
           [] <<i, j>> = <<3, 1>> -> d[3]
           [] <<i, j>> = <<3, 3>> -> d[4]
           [] OTHER -> 0]]
     : mid \in DOMAIN CELLS, o \in NonDecreasing, d \in NonDecreasing}

\* play(n, n, initial): a square world
InitCalls == Init /\ rows = cols

InitializeNeighbourhood ==
    /\ pc = "new"
    /\ rows >= 3 /\ cols >= 3
    /\ \E initial \in NeighbourhoodInputs(rows, cols) : Initialize(initial)

\* Display.update: world.tick(), of a loaded board
TickLoaded ==
    /\ pc \in {"loaded", "running"}
    /\ Tick

\* world.get_cell(row, col), called on the new world before the board is
\* drawn (get_cell does not look at the identities); out is the position of
\* the Cell object it returns
GetCell ==
    /\ pc = "new"
    /\ pc' = "drawing"
    /\ \E row \in -(rows + 1) .. rows, col \in -(cols + 1) .. cols :
          /\ arg' = <<row, col>>
          /\ IF InRange(rows, row) /\ InRange(cols, col)
             THEN /\ err' = "ok"
                  /\ out' = <<get_cell(W, row, col).row,
                               get_cell(W, row, col).col>>
             ELSE /\ err' = get_cell(W, row, col)
                  /\ out' = <<>>
    /\ op' = "get_cell"
    /\ UNCHANGED <<rows, cols, cells, ticks, pre, invoked, paints>>

\* world.change_cell_identity(new, row, col), called while the board is
\* drawn; arg records the arguments
ChangeCellIdentity ==
    /\ pc \in {"new", "drawing"}
    /\ paints < MaxPaints
    /\ \E new \in Identities \cup {"virus"}, row \in -(rows + 1) .. rows,
          col \in -(cols + 1) .. cols :
          \E r \in {change_cell_identity(W, new, row, col)} :
              /\ cells' = r.w.cells
              /\ err' = r.err
              /\ arg' = <<new, row, col>>
    /\ pc' = "drawing"
    /\ paints' = paints + 1
    /\ op' = "change_cell_identity"
    /\ pre' = IdGrid(cells)
    /\ out' = <<>>
    /\ invoked' = NoCalls
    /\ UNCHANGED <<rows, cols, ticks>>

NextCalls ==
    \/ InitializeNeighbourhood
    \/ TickLoaded
    \/ GetCell
    \/ ChangeCellIdentity

SpecCalls == InitCalls /\ [][NextCalls]_vars

(***************************************************************************)
(* Vocabulary of the properties: the wrap-around neighbourhood of a        *)
(* position and the number of neighbours of an identity in a grid of       *)
(* identities, counted neighbour by neighbour.                             *)
(***************************************************************************)
Orth(p) ==
    << <<(p[1] - 1) % rows, p[2]>>, <<(p[1] + 1) % rows, p[2]>>,
       <<p[1], (p[2] - 1) % cols>>, <<p[1], (p[2] + 1) % cols>> >>

Diag(p) ==
    << <<(p[1] - 1) % rows, (p[2] - 1) % cols>>,
       <<(p[1] - 1) % rows, (p[2] + 1) % cols>>,
       <<(p[1] + 1) % rows, (p[2] - 1) % cols>>,
       <<(p[1] + 1) % rows, (p[2] + 1) % cols>> >>

Count(g, ps, identity) == Cardinality({k \in 1 .. 4 : g[ps[k]] = identity})

Count8(g, p, identity) == Count(g, Orth(p), identity) + Count(g, Diag(p), identity)

\* the identity-frequency table of four positions of a grid
Table(g, ps) ==
    [identity \in {g[ps[k]] : k \in 1 .. 4} |-> Count(g, ps, identity)]

Table8(g, p) ==
    [identity \in {g[Orth(p)[k]] : k \in 1 .. 4} \cup {g[Diag(p)[k]] : k \in 1 .. 4}
        |-> Count8(g, p, identity)]

\* the last call was a tick() that returned normally: pre is the grid before
\* it, cells the grid after it, and the caches are those it computed
Ticked == op = "tick" /\ err = "ok"

(***************************************************************************)
(* C1.  Burnout: a Fire cell none of whose four wrap-around orthogonal     *)
(* neighbours is Fire before tick() is Inactive after tick(), whatever     *)
(* stands on its diagonals.                                                *)
(***************************************************************************)
C1_BurnoutAdjacentOnly ==
    Ticked =>
        \A p \in DOMAIN pre :
            (pre[p] = "fire" /\ Count(pre, Orth(p), "fire") = 0)
                => cells[p].identity = "inactive"

(***************************************************************************)
(* C2.  After the caches are refreshed, every cell's adjacent table is the *)
(* frequency table of its four orthogonal neighbours, its diagonals table  *)
(* that of its four corner neighbours, and its neighbors table their sum.  *)
(***************************************************************************)
C2_TablesExact ==
    Ticked =>
        \A p \in DOMAIN pre :
            /\ cells[p].adjacent = Table(pre, Orth(p))
            /\ cells[p].diagonals = Table(pre, Diag(p))
            /\ cells[p].neighbors = Table8(pre, p)

(***************************************************************************)
(* C3.  Skipping static cells is a pure optimisation: the grid tick()      *)
(* produces equals the grid obtained by walking the rule list of every     *)
(* cell, static or not.                                                    *)
(***************************************************************************)
\* the cell at p as tick() evaluated it: the caches tick() computed, and the
\* identity the cell had then
EvaluatedCell(p) == [cells[p] EXCEPT !.identity = pre[p]]

\* the result of the rule list of the cell at p, walked without regard to
\* its static flag
Unskipped(p) ==
    rule_loop(EvaluatedCell(p), RULES[pre[p]], 1, pre[p], <<>>).result

C3_StaticSkipIsPure ==
    Ticked => \A p \in DOMAIN pre : cells[p].identity = Unskipped(p)

\* a tick that skipped a static cell while another cell changed identity
C3_Witness ==
    /\ Ticked
    /\ \E p \in DOMAIN pre : cells[p].static /\ invoked[p] = <<>>
    /\ \E q \in DOMAIN pre : ~cells[q].static /\ cells[q].identity # pre[q]

(***************************************************************************)
(* C4.  tick() is synchronous: the identity of every cell after tick() is  *)
(* a function of the identities, before the tick, of that cell and of its  *)
(* eight wrap-around neighbours, and of nothing else.                      *)
(***************************************************************************)
\* the neighbourhood of p in the grid before the tick, laid out as a world
\* of its own of 3 x 3 cells with p in the middle
Neighbourhood(p) ==
    [rows |-> 3, cols |-> 3, ticks |-> 0,
     cells |-> [q \in Positions(3, 3) |->
                  [NewCell(q[1], q[2]) EXCEPT !.identity =
                      pre[<<(p[1] + q[1] - 1) % rows,
                            (p[2] + q[2] - 1) % cols>>]]]]

\* one generation of the middle cell of that world
Generation(p) ==
    LET n == Neighbourhood(p)
        c1 == set_neighbors(n, n.cells[<<1, 1>>])
        c2 == [c1 EXCEPT !.static = is_static(c1)]
    IN  eval_cell(c2).result

C4_Synchronous ==
    Ticked => \A p \in DOMAIN pre : cells[p].identity = Generation(p)

\* a tick in which a cell and a neighbour visited before it both changed
C4_Witness ==
    /\ Ticked
    /\ \E p \in DOMAIN pre :
          /\ cells[p].identity # pre[p]
          /\ \E k \in 1 .. 4 :
                LET q == Orth(p)[k]
                IN  /\ q[1] * cols + q[2] < p[1] * cols + p[2]
                    /\ cells[q].identity # pre[q]

(***************************************************************************)
(* C5.  initialize(matrix) with a matrix of the grid's dimensions that has *)
(* an entry outside the codebook fails and is a no-op: every cell keeps    *)
(* the identity it had before the call.                                    *)
(***************************************************************************)
\* the matrix has exactly rows rows of exactly cols entries
RowsByCols(m) == Len(m) = rows /\ \A i \in 1 .. Len(m) : Len(m[i]) = cols

AllCodes(m) == \A i \in 1 .. Len(m) : \A j \in 1 .. Len(m[i]) : m[i][j] \in DOMAIN CELLS

C5_BadCodeIsNoOp ==
    (op = "initialize" /\ RowsByCols(arg) /\ ~AllCodes(arg))
        => (err # "ok" /\ IdGrid(cells) = pre)

(***************************************************************************)
(* C6.  initialize(matrix) fails and leaves every cell identity unchanged  *)
(* whenever the matrix is not exactly rows x cols: a wrong number of rows, *)
(* or any row, the first or a later one, of a length other than cols.      *)
(***************************************************************************)
C6_BadDimensionsRejected ==
    (op = "initialize" /\ ~RowsByCols(arg))
        => (err # "ok" /\ IdGrid(cells) = pre)

(***************************************************************************)
(* C7.  Round trip: initialize(matrix) with a rows x cols matrix of codes, *)
(* followed immediately by the snapshot, yields a matrix equal to the      *)
(* input; and taking the snapshot changes no cell and no tick counter.     *)
(***************************************************************************)
\* the last call is a snapshot and the call before it a successful initialize
SnapshotOfLoaded == op = "snapshot" /\ pc = "loaded"

C7_RoundTrip ==
    /\ [](SnapshotOfLoaded /\ RowsByCols(arg) /\ AllCodes(arg)
            => (err = "ok" /\ out = arg))
    /\ [][op' = "snapshot" => UNCHANGED <<rows, cols, cells, ticks>>]_vars

\* a snapshot taken right after loading a matrix in which every code occurs
C7_Witness ==
    /\ SnapshotOfLoaded /\ RowsByCols(arg) /\ AllCodes(arg)
    /\ \A code \in DOMAIN CELLS :
          \E i \in 1 .. rows, j \in 1 .. cols : arg[i][j] = code

(***************************************************************************)
(* C8.  The all-Inactive grid is a fixed point: a world is all Inactive    *)
(* and all static when constructed, and a tick() of an all-Inactive grid   *)
(* leaves every cell Inactive and every static flag true.                  *)
(***************************************************************************)
AllInactive(g) == \A p \in DOMAIN g : g[p] = "inactive"

AllStatic == \A p \in DOMAIN cells : cells[p].static = TRUE

C8_AllInactiveFixedPoint ==
    /\ op = "init" => (AllInactive(IdGrid(cells)) /\ AllStatic)
    /\ (op = "tick" /\ AllInactive(pre))
          => (err = "ok" /\ AllInactive(IdGrid(cells)) /\ AllStatic)

\* the second tick of a world that was all Inactive before each of them
C8_Witness ==
    /\ Ticked /\ ticks = 2 /\ rows * cols > 1
    /\ AllInactive(pre) /\ AllInactive(IdGrid(cells)) /\ AllStatic

(***************************************************************************)
(* C9.  The rule list of a non-static cell is walked in declared order up  *)
(* to the first rule whose result differs from the cell's identity: that   *)
(* result is the next identity and no later rule is called; when no rule   *)
(* of the list gives another identity the cell keeps its identity.         *)
(***************************************************************************)
\* the places, in the rule list of the cell at p, of the rules that give the
\* cell another identity
Changing(p) ==
    {k \in 1 .. Len(RULES[pre[p]]) :
        ApplyRule(RULES[pre[p]][k], EvaluatedCell(p)) # pre[p]}

First(S) == CHOOSE k \in S : \A j \in S : k <= j

C9_ShortCircuit ==
    Ticked =>
        \A p \in DOMAIN pre :
            IF cells[p].static
            THEN invoked[p] = <<>> /\ cells[p].identity = pre[p]
            ELSE IF Changing(p) = {}
            THEN invoked[p] = RULES[pre[p]] /\ cells[p].identity = pre[p]
            ELSE /\ invoked[p] = SubSeq(RULES[pre[p]], 1, First(Changing(p)))
                 /\ cells[p].identity =
                        ApplyRule(RULES[pre[p]][First(Changing(p))],
                                  EvaluatedCell(p))

\* a tick in which one cell stopped at a rule that a later rule of its list
\* would have contradicted or repeated, and another walked its whole list
C9_Witness ==
    /\ Ticked
    /\ \E p \in DOMAIN pre :
          /\ Cardinality(Changing(p)) >= 2
          /\ Len(invoked[p]) < Len(RULES[pre[p]])
    /\ \E q \in DOMAIN pre :
          /\ ~cells[q].static
          /\ Changing(q) = {}
          /\ Len(invoked[q]) > 1

(***************************************************************************)
(* C10.  Reproduction: an Inactive cell with exactly 3 Live cells among    *)
(* its eight wrap-around neighbours is Live after tick(); in particular,   *)
(* in a world of at least 3 x 3 cells whose Live cells are (0,0), (0,1)    *)
(* and (1,0), the cell (1,1) is Live after tick().                         *)
(***************************************************************************)
LShape ==
    /\ rows >= 3 /\ cols >= 3
    /\ \A p \in DOMAIN pre :
          pre[p] = "live" <=> p \in {<<0, 0>>, <<0, 1>>, <<1, 0>>}
    /\ pre[<<1, 1>>] = "inactive"

C10_Reproduction ==
    Ticked =>
        /\ \A p \in DOMAIN pre :
              (pre[p] = "inactive" /\ Count8(pre, p, "live") = 3)
                  => cells[p].identity = "live"
        /\ LShape => cells[<<1, 1>>].identity = "live"

\* the L shape has been ticked in a world of 3 x 3 cells
C10_Witness ==
    /\ Ticked /\ LShape /\ rows = 3 /\ cols = 3
    /\ cells[<<1, 1>>].identity = "live"

(***************************************************************************)
(* C11.  Solitude: a Live cell with fewer than 2 Live cells among its      *)
(* eight wrap-around neighbours (0 or 1) before tick() is Inactive after   *)
(* tick(); so is, in particular, a Live cell with no Live neighbour.       *)
(***************************************************************************)
C11_Solitude ==
    Ticked =>
        \A p \in DOMAIN pre :
            (pre[p] = "live" /\ Count8(pre, p, "live") < 2)
                => cells[p].identity = "inactive"

\* a tick of a world of 3 x 3 cells in which a Live cell with exactly one
\* Live neighbour was stopped by Solitude
C11_Witness ==
    /\ Ticked /\ rows = 3 /\ cols = 3
    /\ \E p \in DOMAIN pre :
          /\ pre[p] = "live" /\ Count8(pre, p, "live") = 1
          /\ invoked[p] = <<"solitude">>
          /\ cells[p].identity = "inactive"

(***************************************************************************)
(* C12.  Drowning starts at 6: a Live cell with exactly 6 Water cells      *)
(* among its eight neighbours is Inactive after tick(); a Live cell with   *)
(* exactly 5 Water neighbours, 2 or 3 Live neighbours and no Fire among    *)
(* its four orthogonal neighbours is still Live after tick().              *)
(***************************************************************************)
C12_DrowningBoundary ==
    Ticked =>
        \A p \in DOMAIN pre :
            pre[p] = "live" =>
                /\ Count8(pre, p, "water") = 6
                      => cells[p].identity = "inactive"
                /\ (/\ Count8(pre, p, "water") = 5
                    /\ Count8(pre, p, "live") \in {2, 3}
                    /\ Count(pre, Orth(p), "fire") = 0)
                      => cells[p].identity = "live"

(***************************************************************************)
(* C13.  Scorch counts the four orthogonal neighbours only: a Live cell    *)
(* with 2 or 3 Live neighbours, fewer than 6 Water neighbours and no Fire  *)
(* among its four orthogonal neighbours is still Live after tick(),        *)
(* whatever the number of Fire cells on its diagonals; and a Live cell     *)
(* that Solitude and Overpopulation leave alone and that has Fire among    *)
(* its orthogonal neighbours is Inactive after tick().                     *)
(***************************************************************************)
C13_ScorchAdjacentOnly ==
    Ticked =>
        \A p \in DOMAIN pre :
            (pre[p] = "live" /\ Count8(pre, p, "live") \in {2, 3}) =>
                /\ Count(pre, Orth(p), "fire") >= 1
                      => cells[p].identity = "inactive"
                /\ (Count(pre, Orth(p), "fire") = 0 /\ Count8(pre, p, "water") < 6)
                      => cells[p].identity = "live"

(***************************************************************************)
(* C14.  Evaporation counts the four orthogonal neighbours only: a Water   *)
(* cell is Inactive after tick() if and only if none of its four           *)
(* wrap-around orthogonal neighbours was Water before the tick.            *)
(***************************************************************************)
C14_EvaporationAdjacentOnly ==
    Ticked =>
        \A p \in DOMAIN pre :
            pre[p] = "water" =>
                (cells[p].identity = "inactive"
                    <=> Count(pre, Orth(p), "water") = 0)

(***************************************************************************)
(* C15.  get_cell never fails and is toroidal: for every integer row and   *)
(* col, also below 0 and from rows or cols up, it returns the cell at      *)
(* (row mod rows, col mod cols).                                           *)
(***************************************************************************)
C15_GetCellToroidal ==
    op = "get_cell" =>
        (err = "ok" /\ out = <<arg[1] % rows, arg[2] % cols>>)

(***************************************************************************)
(* C16.  change_cell_identity is validated: a call with a position outside *)
(* 0 .. rows-1 x 0 .. cols-1 (negative indices included) or with an        *)
(* identity that is not in the codebook is rejected and changes no cell;   *)
(* after any sequence of calls every cell identity is in the codebook.     *)
(***************************************************************************)
ValidOverride(new, row, col) ==
    /\ new \in Identities
    /\ row \in 0 .. rows - 1
    /\ col \in 0 .. cols - 1

C16_OverrideValidated ==
    /\ (op = "change_cell_identity" /\ ~ValidOverride(arg[1], arg[2], arg[3]))
          => (err # "ok" /\ IdGrid(cells) = pre)
    /\ \A p \in DOMAIN cells : cells[p].identity \in Identities

(***************************************************************************)
(* C17.  The assertion at the head of a rule function never fails: in      *)
(* every tick() of a grid over the codebook, in any sequence of tick() and *)
(* valid initialize() calls, each rule is called only on a cell whose      *)
(* identity is the one the rule asserts, and the tick raises nothing.      *)
(***************************************************************************)
\* the identity a rule function asserts: the one it does not reject
Applicable(rule) ==
    CHOOSE identity \in Identities :
        ApplyRule(rule, [NewCell(0, 0) EXCEPT !.identity = identity])
            # "AssertionError"

AllRules == UNION {{RULES[i][k] : k \in 1 .. Len(RULES[i])} : i \in DOMAIN RULES}

C17_RuleAssertionsHold ==
    (op = "tick" /\ \A p \in DOMAIN pre : pre[p] \in Identities) =>
        /\ err = "ok"
        /\ \A p \in DOMAIN pre :
              \A k \in 1 .. Len(invoked[p]) :
                  Applicable(invoked[p][k]) = pre[p]

\* a second tick in which rules were called on an Inactive, a Live, a Fire
\* and a Water cell
C17_Witness ==
    /\ Ticked /\ ticks = 2
    /\ \A identity \in Identities :
          \E p \in DOMAIN pre : pre[p] = identity /\ invoked[p] # <<>>

(***************************************************************************)
(* C18.  The phases of tick() run in the order cache, classify, evaluate,  *)
(* commit: the neighbour tables of all cells are those of the grid before  *)
(* the tick, the static flags are computed from these tables, the next     *)
(* identities from these tables and flags, and only then is the grid       *)
(* overwritten; the world tick counter grows by exactly one in a tick()    *)
(* that returns, so that it counts the ticks, and no other call, and in    *)
(* particular not initialize(), changes it.                                *)
(***************************************************************************)
C18_PhaseOrder ==
    /\ [](Ticked =>
            \A p \in DOMAIN pre :
                /\ cells[p].neighbors = Table8(pre, p)
                /\ cells[p].diagonals = Table(pre, Diag(p))
                /\ cells[p].static =
                      (pre[p] = "inactive" /\ Count8(pre, p, "inactive") = 8)
                /\ cells[p].identity = eval_cell(EvaluatedCell(p)).result)
    /\ [][(op' = "tick" /\ err' = "ok") => ticks' = ticks + 1]_vars
    /\ [][op' # "tick" => ticks' = ticks]_vars

\* a second tick in which a cell changed identity, every cell having been
\* visited by both ticks
C18_Witness ==
    /\ Ticked /\ ticks = 2
    /\ \E p \in DOMAIN pre : cells[p].identity # pre[p]
    /\ \A p \in DOMAIN pre : cells[p].ticks = ticks

(***************************************************************************)
(* C19.  Static classification is idempotent: running setup_cells again,   *)
(* with no cell identity changed since it ran, leaves every static flag    *)
(* and every adjacent, diagonals and neighbors table as they are; and the  *)
(* flag of a cell is true exactly when the cell and all its eight          *)
(* wrap-around neighbours are Inactive.                                    *)
(***************************************************************************)
\* the world as setup_cells left it when the world was constructed or in the
\* last tick, before any identity was overwritten
Classified == [W EXCEPT !.cells = [p \in DOMAIN cells |-> EvaluatedCell(p)]]

C19_ClassifierIdempotent ==
    (Ticked \/ op = "init") =>
        /\ setup_cells(Classified).cells = Classified.cells
        /\ \A p \in DOMAIN pre :
              cells[p].static =
                  (pre[p] = "inactive" /\ Count8(pre, p, "inactive") = 8)

\* a tick that classified a static cell, an Inactive cell that is not static
\* and a cell that is not Inactive
C19_Witness ==
    /\ Ticked
    /\ \E p \in DOMAIN pre : cells[p].static
    /\ \E p \in DOMAIN pre : pre[p] = "inactive" /\ ~cells[p].static
    /\ \E p \in DOMAIN pre : pre[p] # "inactive"

(***************************************************************************)
(* C20.  The order of the Fire rules decides: a Fire cell with at least 2  *)
(* Live cells on its diagonals for which Burnout fires (no Fire among the  *)
(* neighbours Burnout inspects) is Inactive after tick(), not Water, and   *)
(* would be Water with Firefighter placed before Burnout; such a cell for  *)
(* which Burnout does not fire is Water after tick(), whatever stands on   *)
(* its orthogonal neighbours and even with Water among its neighbours.     *)
(***************************************************************************)
BurnoutFires(p) == apply_burnout(EvaluatedCell(p)) = "inactive"

FirefighterFirst(p) ==
    rule_loop(EvaluatedCell(p), FIRE_RULES_firefighter_first, 1, pre[p],
              <<>>).result

C20_FirefighterReached ==
    /\ Ticked
    /\ \E p \in DOMAIN pre :
          /\ pre[p] = "fire" /\ ~BurnoutFires(p)
          /\ Count(pre, Orth(p), "live") >= 1
          /\ Count(pre, Orth(p), "water") >= 1
          /\ invoked[p] = <<"burnout", "firefighter">>
          /\ cells[p].identity = "water"

(***************************************************************************)
(* C21.  Render soundness: after every tick() every cell whose identity    *)
(* the tick changed has static false, so that draw_world, which redraws    *)
(* only the cells that are not static, turns a screen that showed the grid *)
(* before the tick into one that shows the grid after it; the screen of    *)
(* the first full draw thus stays right over any sequence of ticks.        *)
(***************************************************************************)
\* the screen that shows the grid g
Shown(g) == [p \in DOMAIN g |-> COLORS[g[p]]]

C21_RenderSound ==
    Ticked =>
        /\ \A p \in DOMAIN pre :
              cells[p].identity # pre[p] => cells[p].static = FALSE
        /\ draw_world(Shown(pre), W) = draw_initial(W)

\* a second tick that changed a cell, left a cell that is not static as it
\* was, and skipped a static cell
C21_Witness ==
    /\ Ticked /\ ticks = 2
    /\ \E p \in DOMAIN pre : cells[p].identity # pre[p]
    /\ \E p \in DOMAIN pre : ~cells[p].static /\ cells[p].identity = pre[p]
    /\ \E p \in DOMAIN pre : cells[p].static

(***************************************************************************)
(* C22.  Species closure: a tick() of a grid without Live cells gives a    *)
(* grid without Live cells in which no cell has become Water, and a tick() *)
(* of a grid without Fire cells gives a grid without Fire cells in which   *)
(* no cell has become Water; hence, over any sequence of ticks, Live and   *)
(* Fire never come back and Water is never gained.                         *)
(***************************************************************************)
NoneOf(g, identity) == \A p \in DOMAIN g : g[p] # identity

NoWaterGained ==
    \A p \in DOMAIN pre : cells[p].identity = "water" => pre[p] = "water"

C22_SpeciesClosure ==
    Ticked =>
        /\ NoneOf(pre, "live")
              => (NoneOf(IdGrid(cells), "live") /\ NoWaterGained)
        /\ NoneOf(pre, "fire")
              => (NoneOf(IdGrid(cells), "fire") /\ NoWaterGained)

\* a second tick of a grid without Live cells that holds Fire and Water, in
\* which a cell changed and Fire is left
C22_Witness ==
    /\ Ticked /\ ticks = 2
    /\ NoneOf(pre, "live")
    /\ \E p \in DOMAIN pre : pre[p] = "fire"
    /\ \E p \in DOMAIN pre : pre[p] = "water"
    /\ \E p \in DOMAIN pre : cells[p].identity # pre[p]
    /\ \E p \in DOMAIN pre : cells[p].identity = "fire"

(***************************************************************************)
(* C23.  One-step transition relation: in every tick() each cell keeps its *)
(* identity or makes one of the changes Inactive -> Live, Inactive ->      *)
(* Fire, Live -> Inactive, Fire -> Inactive, Fire -> Water, Water ->       *)
(* Inactive, and no other; every identity stays in the codebook and the    *)
(* grid keeps its dimensions.                                              *)
(***************************************************************************)
Changes ==
    {<<"inactive", "live">>, <<"inactive", "fire">>, <<"live", "inactive">>,
     <<"fire", "inactive">>, <<"fire", "water">>, <<"water", "inactive">>}

\* the changes of identity the last tick made
Made == {<<pre[p], cells[p].identity>> : p \in DOMAIN pre} \ {<<i, i>> : i \in Identities}

C23_TransitionRelation ==
    Ticked =>
        /\ Made \subseteq Changes
        /\ \A p \in DOMAIN cells : cells[p].identity \in Identities
        /\ DOMAIN cells = Positions(rows, cols)
        /\ DOMAIN pre = DOMAIN cells

\* a tick that made five of the six changes, Inactive -> Fire and
\* Fire -> Water among them
C23_Witness ==
    /\ Ticked
    /\ Cardinality(Made) = 5
    /\ <<"inactive", "fire">> \in Made
    /\ <<"fire", "water">> \in Made

====
